---------------------------- MODULE Spec2Model ----------------------------
(***************************************************************************)
(* ORCA-SPOT predict.py: sliding-window prediction over a list of audio    *)
(* files.  The model follows the control flow of the __main__ block:       *)
(*   read the model's dataOpts  ->  for every audio file: build the        *)
(*   strided dataset and its DataLoader, iterate the batches, run the      *)
(*   model on each batch and log one record per row of the batch.          *)
(*                                                                         *)
(* Sample offsets, window counts and batch indices are integers.           *)
(* Probabilities and the threshold are kept in permille (0..1000).         *)
(* StridedAudioDataset (data/audiodataset.py) is not part of the sources   *)
(* at hand; its length, its failure on an invalid file and the ordered     *)
(* delivery of the batches are modelled from the specification text.       *)
(***************************************************************************)
EXTENDS Integers, Sequences, FiniteSets

VARIABLES
    pc,            \* position of the main script
    err,           \* the uncaught exception that ended the run, "" if none
    dataOpts,      \* keys present in the model's dataOpts dictionary
    n_freq_bins,   \* which dataOpts key supplied n_freq_bins
    threshold,     \* ARGS.threshold, permille
    batch_size,    \* ARGS.batch_size
    num_workers,   \* ARGS.num_workers
    audio_files,   \* len(ARGS.audio_files)
    sequence_len,  \* window length in samples
    hop,           \* hop in samples
    file_idx,      \* number of files whose dataset construction was started
    n_frames,      \* dataset.n_frames of the current file
    stop,          \* the logged "stop time" of the current file
    i,             \* enumerate() index of the next batch
    fetched,       \* batches finished by the workers and not yet consumed
    reordered,     \* history: a worker finished a batch ahead of an earlier one
    records,       \* records logged for the current file
    weights,       \* the loaded model (its parameters), fixed for the run
    finished       \* number of files whose batch loop ran to its end

vars == << pc, err, dataOpts, n_freq_bins, threshold, batch_size, num_workers,
           audio_files, sequence_len, hop, file_idx, n_frames, stop, i,
           fetched, reordered, records, weights, finished >>

---------------------------------------------------------------------------
(* Bounds of the model *)

MaxFrames == 8

MaxHop == 3

MaxSeqLen == 4

MaxBatch == 2

MaxWorkers == 2

MaxFiles == 2

MaxMissing == 2

---------------------------------------------------------------------------
(* Helpers *)

Min(a, b) == IF a <= b THEN a ELSE b

Max(a, b) == IF a >= b THEN a ELSE b

CeilDiv(a, b) == (a + b - 1) \div b

\* keys of dataOpts read with a plain subscript (lines 160-173)
PlainKeys == { "sr", "hop_length", "n_fft", "fmin", "fmax", "freq_compression",
               "min_level_db", "ref_level_db" }

\* keys read through the try/except of lines 164-167
BinKeys == { "num_mels", "n_freq_bins" }

AllKeys == PlainKeys \cup BinKeys

\* ARGS.threshold values, permille
Thresholds == { 500, 731 }

\* two-class score rows a model returns
ScoreRows == << <<1, 0>>, <<0, 0>>, <<0, 1>> >>

---------------------------------------------------------------------------
(* Reading the model configuration, lines 160-173 *)

KeyErrorsNoFmax(opts) ==
    { k \in PlainKeys \ {"fmax"} : k \notin opts }
        \cup (IF BinKeys \cap opts = {} THEN {"n_freq_bins"} ELSE {})

\* the subscripts that raise KeyError for this dataOpts
KeyErrors(opts) ==
    { k \in PlainKeys : k \notin opts }
        \cup (IF BinKeys \cap opts = {} THEN {"n_freq_bins"} ELSE {})

\* try dataOpts["num_mels"] except KeyError: dataOpts["n_freq_bins"]
FreqBinsKey(opts) ==
    IF "num_mels" \in opts THEN "num_mels" ELSE "n_freq_bins"

---------------------------------------------------------------------------
(* Window arithmetic of the per-file loop, lines 211-226 *)

StopNoMax(frames, h) == frames \div h

\* stop = int(max(floor(dataset.n_frames / hop), 1))
Stop(frames, h) == Max(frames \div h, 1)

T_startRowIgnored(idx, bs, n, h) == (idx * bs) * h

T_startNoBatchSize(idx, bs, n, h) == (idx + n) * h

\* t_start = (i * ARGS.batch_size + n) * hop
T_start(idx, bs, n, h) == (idx * bs + n) * h

T_endOffByOne(start, len, frames) == Min(start + len, frames)

T_endUnclamped(start, len, frames) == start + len - 1

T_endShort(start, len, frames) == Min(start + len - 2, frames - 1)

\* t_end = min(t_start + sequence_len - 1, dataset.n_frames - 1)
T_end(start, len, frames) == Min(start + len - 1, frames - 1)

\* softmax(out, dim=1)[n, 1] of a two-class row, permille:
\* exp(l1) / (exp(l0) + exp(l1)) depends on l1 - l0 only
Softmax1(row) ==
    CASE row[2] - row[1] = -1 -> 269
      [] row[2] - row[1] = 0  -> 500
      [] row[2] - row[1] = 1  -> 731

PredStrict(prob, thr) == IF prob > thr THEN 1 ELSE 0

\* pred = int(prob >= ARGS.threshold)
Pred(prob, thr) == IF prob >= thr THEN 1 ELSE 0

---------------------------------------------------------------------------
(* The dataset and the loader *)

\* len(dataset): the number of windows of the file
DatasetLen(frames, h) == Max(frames \div h, 1)

\* number of batches the loader yields (the last one may be short)
NumBatches(frames, h, bs) == CeilDiv(DatasetLen(frames, h), bs)

\* dataset indices of the rows of batch b, in row order
BatchIndices(b, frames, h, bs) ==
    [ n \in 1 .. Min(bs, DatasetLen(frames, h) - b * bs) |-> b * bs + (n - 1) ]

\* batches the workers may be working on while the main loop waits for batch idx
InFlight(idx, nb, workers) == { b \in idx .. (Min(nb, idx + workers) - 1) : TRUE }

\* out = model(input): the network is a fixed function of each input frame;
\* the frame of a row is identified by its file and its dataset index
Model(w, file, input) ==
    [ r \in 1 .. Len(input) |-> ScoreRows[((w + file + input[r]) % Len(ScoreRows)) + 1] ]

\* the records logged for batch idx, rows in order (lines 220-231)
BatchRecords(idx, input, out) ==
    [ r \in 1 .. Len(input) |->
        LET t_start == T_start(idx, batch_size, r - 1, hop)
            prob    == Softmax1(out[r])
        IN  [ t_start |-> t_start,
              t_end   |-> T_end(t_start, sequence_len, n_frames),
              prob    |-> prob,
              pred    |-> Pred(prob, threshold),
              win     |-> input[r] ] ]

LogAfterBatchPartial(recs, new, failed) ==
    IF failed THEN recs \o SubSeq(new, 1, 1) ELSE recs \o new

\* the log after one iteration of the batch loop: an exception raised while
\* the batch is fetched (line 215) leaves the loop before any row is logged
LogAfterBatch(recs, new, failed) == IF failed THEN recs ELSE recs \o new

---------------------------------------------------------------------------
(* Initial state: the parsed arguments and the loaded model file *)

Init ==
    /\ pc = "config"
    /\ err = ""
    /\ dataOpts \in { o \in SUBSET AllKeys : Cardinality(AllKeys \ o) <= MaxMissing }
    /\ n_freq_bins = "unset"
    /\ threshold \in Thresholds
    /\ batch_size \in 1 .. MaxBatch
    /\ num_workers \in 0 .. MaxWorkers
    /\ audio_files \in 1 .. MaxFiles
    /\ sequence_len = 0
    /\ hop = 0
    /\ file_idx = 0
    /\ n_frames = 0
    /\ stop = 0
    /\ i = 0
    /\ fetched = {}
    /\ reordered = FALSE
    /\ records = << >>
    /\ weights \in 0 .. (Len(ScoreRows) - 1)
    /\ finished = 0

---------------------------------------------------------------------------
(* Actions *)

\* lines 160-183: a missing key raises KeyError, nothing catches it
ConfigFail ==
    /\ pc = "config"
    /\ KeyErrors(dataOpts) # {}
    /\ pc' = "aborted"
    /\ err' = "KeyError"
    /\ UNCHANGED << reordered, dataOpts, n_freq_bins, threshold, batch_size, num_workers,
                    audio_files, sequence_len, hop, file_idx, n_frames, stop,
                    i, fetched, records, weights, finished >>

\* lines 160-183: all keys read; sequence_len and hop converted to samples
Configure ==
    /\ pc = "config"
    /\ KeyErrors(dataOpts) = {}
    /\ n_freq_bins' = FreqBinsKey(dataOpts)
    /\ sequence_len' \in 1 .. MaxSeqLen
    /\ hop' \in 1 .. MaxHop
    /\ pc' = "files"
    /\ UNCHANGED << reordered, err, dataOpts, threshold, batch_size, num_workers,
                    audio_files, file_idx, n_frames, stop, i, fetched,
                    records, weights, finished >>

\* lines 187-212: the next file is opened and its windows are counted
OpenFile ==
    /\ pc = "files"
    /\ file_idx < audio_files
    /\ \E frames \in 1 .. MaxFrames :
          /\ n_frames' = frames
          /\ stop' = Stop(frames, hop)
    /\ file_idx' = file_idx + 1
    /\ i' = 0
    /\ fetched' = {}
    /\ reordered' = FALSE
    /\ records' = << >>
    /\ pc' = "batches"
    /\ UNCHANGED << err, dataOpts, n_freq_bins, threshold, batch_size,
                    num_workers, audio_files, sequence_len, hop, weights, finished >>

\* line 189: the file is missing, undecodable or empty; the dataset
\* constructor raises and the for loop of line 187 has no handler
OpenFileFail ==
    /\ pc = "files"
    /\ file_idx < audio_files
    /\ file_idx' = file_idx + 1
    /\ n_frames' = 0
    /\ stop' = 0
    /\ i' = 0
    /\ fetched' = {}
    /\ reordered' = FALSE
    /\ records' = << >>
    /\ pc' = "aborted"
    /\ err' = "InvalidAudioError"
    /\ UNCHANGED << dataOpts, n_freq_bins, threshold, batch_size, num_workers,
                    audio_files, sequence_len, hop, weights, finished >>

\* a fetch worker finishes one of the batches in flight, or fails on it
WorkerFetch ==
    /\ pc = "batches"
    /\ num_workers > 0
    /\ \E b \in InFlight(i, NumBatches(n_frames, hop, batch_size), num_workers) :
          /\ \A f \in fetched : f.batch # b
          /\ \E ok \in BOOLEAN :
                fetched' = fetched \cup { [ batch |-> b, ok |-> ok ] }
          /\ reordered' = (reordered \/ \E e \in i .. (b - 1) :
                                           \A f \in fetched : f.batch # e)
    /\ UNCHANGED << pc, err, dataOpts, n_freq_bins, threshold, batch_size,
                    num_workers, audio_files, sequence_len, hop, file_idx,
                    n_frames, stop, i, records, weights, finished >>

\* lines 215-231 with workers: the loader hands over batch i once it was fetched
NextBatchWorkers ==
    /\ pc = "batches"
    /\ num_workers > 0
    /\ i < NumBatches(n_frames, hop, batch_size)
    /\ \E f \in fetched :
          /\ f.batch = i
          /\ LET input == BatchIndices(i, n_frames, hop, batch_size)
                 out   == Model(weights, file_idx, input)
             IN  records' = LogAfterBatch(records,
                                          BatchRecords(i, input, out), ~f.ok)
          /\ fetched' = fetched \ { f }
          /\ IF f.ok
                THEN /\ i' = i + 1
                     /\ UNCHANGED << pc, err >>
                ELSE /\ pc' = "aborted"
                     /\ err' = "FetchError"
                     /\ UNCHANGED i
    /\ UNCHANGED << reordered, dataOpts, n_freq_bins, threshold, batch_size, num_workers,
                    audio_files, sequence_len, hop, file_idx, n_frames, stop,
                    weights, finished >>

\* lines 215-231 with num_workers = 0: the main loop fetches batch i itself
NextBatchSync ==
    /\ pc = "batches"
    /\ num_workers = 0
    /\ i < NumBatches(n_frames, hop, batch_size)
    /\ \E ok \in BOOLEAN :
          /\ LET input == BatchIndices(i, n_frames, hop, batch_size)
                 out   == Model(weights, file_idx, input)
             IN  records' = LogAfterBatch(records,
                                          BatchRecords(i, input, out), ~ok)
          /\ IF ok
                THEN /\ i' = i + 1
                     /\ UNCHANGED << pc, err >>
                ELSE /\ pc' = "aborted"
                     /\ err' = "FetchError"
                     /\ UNCHANGED i
    /\ UNCHANGED << reordered, dataOpts, n_freq_bins, threshold, batch_size, num_workers,
                    audio_files, sequence_len, hop, file_idx, n_frames, stop,
                    fetched, weights, finished >>

\* line 232: the loader is exhausted, "Finished proccessing"
FinishFile ==
    /\ pc = "batches"
    /\ i = NumBatches(n_frames, hop, batch_size)
    /\ finished' = finished + 1
    /\ pc' = "files"
    /\ UNCHANGED << reordered, err, dataOpts, n_freq_bins, threshold, batch_size,
                    num_workers, audio_files, sequence_len, hop, file_idx,
                    n_frames, stop, i, fetched, records, weights >>

\* line 234: every file was processed
Close ==
    /\ pc = "files"
    /\ file_idx = audio_files
    /\ pc' = "done"
    /\ UNCHANGED << reordered, err, dataOpts, n_freq_bins, threshold, batch_size,
                    num_workers, audio_files, sequence_len, hop, file_idx,
                    n_frames, stop, i, fetched, records, weights, finished >>

Next ==
    \/ ConfigFail
    \/ Configure
    \/ OpenFile
    \/ OpenFileFail
    \/ WorkerFetch
    \/ NextBatchWorkers
    \/ NextBatchSync
    \/ FinishFile
    \/ Close

Spec == Init /\ [][Next]_vars

---------------------------------------------------------------------------
(* Properties *)

\* the batch loop of the current file ran to its end: records, n_frames and
\* stop are those of the file just finished
FileComplete == pc \in { "files", "done" } /\ finished > 0

\* number of samples of a record's interval
Span(r) == r.t_end - r.t_start + 1

\* the positive-class probability of the frame of window w of the current file
ScoreOf(w) == Softmax1(Model(weights, file_idx, << w >>)[1])

\* C1: a finished file has exactly max(floor(n_frames / hop), 1) records, one
\* for each window index 0 .. num_windows - 1 in this order, and that count is
\* the logged stop value; while the file is running no more than stop are logged
C1_RecordCount ==
    /\ pc = "batches" => Len(records) <= stop
    /\ FileComplete =>
          /\ Len(records) = (IF n_frames \div hop >= 1 THEN n_frames \div hop ELSE 1)
          /\ Len(records) = stop
          /\ \A k \in 1 .. Len(records) : records[k].win = k - 1

C1_Witness ==
    /\ FileComplete
    /\ n_frames \div hop >= 2
    /\ n_frames % hop # 0
    /\ Len(records) = n_frames \div hop

\* C2: the k-th record of a file (window index k - 1) starts at (k - 1) * hop
\* and ends at min(start + sequence_len - 1, n_frames - 1);
\* 0 <= start <= end <= n_frames - 1
C2_Bounds ==
    \A k \in 1 .. Len(records) :
        LET r == records[k]
        IN  /\ r.t_start = (k - 1) * hop
            /\ r.t_end = (IF r.t_start + sequence_len - 1 <= n_frames - 1
                            THEN r.t_start + sequence_len - 1
                            ELSE n_frames - 1)
            /\ 0 <= r.t_start
            /\ r.t_start <= r.t_end
            /\ r.t_end <= n_frames - 1

\* the scenario n_frames = sequence_len = 2 * hop: windows [0, n-1] and [hop, n-1]
C2_Witness ==
    /\ FileComplete
    /\ hop = 2 /\ sequence_len = 4 /\ n_frames = 4
    /\ Len(records) = 2
    /\ records[1].t_start = 0 /\ records[1].t_end = 3
    /\ records[2].t_start = 2 /\ records[2].t_end = 3

\* C3 as stated: every window spans at most sequence_len samples and every
\* window but the final one spans exactly sequence_len
C3_OnlyLastShort ==
    FileComplete =>
        \A k \in 1 .. Len(records) :
            /\ Span(records[k]) <= sequence_len
            /\ k < Len(records) => Span(records[k]) = sequence_len

\* C3 amended: every window spans at most sequence_len samples, exactly
\* sequence_len iff start + sequence_len <= n_frames; when
\* sequence_len <= 2 * hop only the final window of a file can be shorter
C3_SpanAmended ==
    \A k \in 1 .. Len(records) :
        /\ Span(records[k]) <= sequence_len
        /\ Span(records[k]) = sequence_len
              <=> records[k].t_start + sequence_len <= n_frames
        /\ (FileComplete /\ sequence_len <= 2 * hop /\ k < Len(records))
              => Span(records[k]) = sequence_len

C3_Witness ==
    /\ FileComplete
    /\ hop < sequence_len
    /\ sequence_len <= 2 * hop
    /\ Len(records) >= 3
    /\ Span(records[Len(records)]) < sequence_len
    /\ \A k \in 1 .. Len(records) - 1 : Span(records[k]) = sequence_len

\* C4: a record's decision is 1 exactly when the probability of its own
\* window is >= threshold (equality included), 0 otherwise; decisions are
\* monotonic in the probability
C4_Decision ==
    \A k \in 1 .. Len(records) :
        LET r == records[k]
        IN  /\ r.prob = ScoreOf(r.win)
            /\ r.pred \in { 0, 1 }
            /\ r.pred = 1 <=> r.prob >= threshold
            /\ \A m \in 1 .. Len(records) :
                  r.prob <= records[m].prob => r.pred <= records[m].pred

C4_Witness ==
    /\ Len(records) >= 3
    /\ \E k \in 1 .. Len(records) :
          records[k].prob = threshold /\ records[k].pred = 1
    /\ \E k \in 1 .. Len(records) :
          records[k].prob < threshold /\ records[k].pred = 0
    /\ \E k \in 1 .. Len(records) :
          records[k].prob > threshold /\ records[k].pred = 1

\* C5: whatever the number of workers and the order in which they finish,
\* the records are in strictly ascending window order and the record that is
\* labelled start = w * hop carries the score of window w
C5_WorkerOrder ==
    \A k \in 1 .. Len(records) :
        LET r == records[k]
        IN  /\ r.t_start = r.win * hop
            /\ r.prob = ScoreOf(r.t_start \div hop)
            /\ k > 1 => /\ records[k - 1].win < r.win
                        /\ records[k - 1].t_start < r.t_start

C5_Witness ==
    /\ FileComplete
    /\ reordered
    /\ num_workers >= 2
    /\ Len(records) >= 3

\* C6 as stated: a file that fails does not end the run, the files after it
\* are still taken up
C6_LaterFilesProcessed ==
    (pc = "aborted" /\ err = "InvalidAudioError") => file_idx = audio_files

\* C7: with a required configuration key absent the run ends with KeyError
\* before any file is opened and before any record is logged; n_freq_bins is
\* read only when num_mels is absent
C7_ConfigAbort ==
    /\ ( \/ \E k \in { "sr", "n_fft", "fmin", "fmax", "freq_compression" } :
                k \notin dataOpts
         \/ ("num_mels" \notin dataOpts /\ "n_freq_bins" \notin dataOpts) )
       => /\ pc \in { "config", "aborted" }
          /\ pc = "aborted" => err = "KeyError"
          /\ file_idx = 0
          /\ finished = 0
          /\ records = << >>
          /\ fetched = {}
    /\ n_freq_bins = "n_freq_bins" => "num_mels" \notin dataOpts
    /\ (pc \notin { "config", "aborted" } /\ "num_mels" \in dataOpts)
          => n_freq_bins = "num_mels"

C7_Witness ==
    /\ pc = "aborted"
    /\ err = "KeyError"
    /\ "fmax" \notin dataOpts
    /\ AllKeys \ dataOpts = { "fmax" }

\* C8: when the fetch of a batch fails the error ends the loop, the log holds
\* the complete earlier batches and no record of the failed batch
C8_NoPartialBatch ==
    err = "FetchError" =>
        /\ pc = "aborted"
        /\ Len(records) = i * batch_size
        /\ \A k \in 1 .. Len(records) : records[k].win = k - 1

C8_Witness ==
    /\ err = "FetchError"
    /\ batch_size >= 2
    /\ i >= 1
    /\ Len(records) = i * batch_size
    /\ Len(BatchIndices(i, n_frames, hop, batch_size)) >= 2

\* C9: for every batch size, a short final batch included, the intervals of a
\* finished file are those of batch_size = 1: the k-th record is
\* [(k-1) * hop, min((k-1) * hop + sequence_len - 1, n_frames - 1)], and
\* every window index appears exactly once
C9_BatchLabel ==
    FileComplete =>
        /\ Len(records) = Max(n_frames \div hop, 1)
        /\ \A k \in 1 .. Len(records) :
              /\ records[k].t_start = (k - 1) * hop
              /\ records[k].t_end = Min((k - 1) * hop + sequence_len - 1, n_frames - 1)
        /\ \A w \in 0 .. Max(n_frames \div hop, 1) - 1 :
              Cardinality({ k \in 1 .. Len(records) : records[k].win = w }) = 1

C9_Witness ==
    /\ FileComplete
    /\ batch_size >= 2
    /\ Len(records) > batch_size
    /\ Len(records) % batch_size # 0

\* C10: with sequence_len >= 2 * hop - 1 the intervals of a finished file
\* cover every sample 0 .. n_frames - 1
C10_Coverage ==
    (FileComplete /\ sequence_len >= 2 * hop - 1) =>
        \A s \in 0 .. n_frames - 1 :
            \E k \in 1 .. Len(records) :
                records[k].t_start <= s /\ s <= records[k].t_end

C10_Witness ==
    /\ FileComplete
    /\ hop >= 2
    /\ sequence_len = 2 * hop - 1
    /\ n_frames % hop = hop - 1
    /\ Len(records) >= 2

=============================================================================
